---- MODULE Spec2Model ----
(***************************************************************************)
(* Model of the Docker stats exporter of src/main.py: the collection cycle *)
(* of DockerStatsCollector.collect() with its fetch workers, the three     *)
(* sub-collectors (network, memory, cpu), the lru_cache'd _details lookup  *)
(* and LRUCacheStatsCollector.                                             *)
(*                                                                         *)
(* Python strings that the code splits or slices are sequences of          *)
(* one-character strings; opaque strings (family names, interface names)   *)
(* are TLA+ strings.                                                       *)
(***************************************************************************)
EXTENDS Integers, Sequences, FiniteSets, TLC

(***************************************************************************)
(* Bounds of the model and constants of the program.                       *)
(***************************************************************************)
\* number of collect() cycles started in one behaviour
MaxCycles == 2
\* containers that exist on the host in one behaviour
MaxHost == 2
\* fetch threads started in one behaviour
MaxWorkers == 2
\* thread.join(5)
JoinTimeout == 5
\* taskid[:8]
ShortLen == 8
\* @lru_cache(maxsize=32)
CacheMaxSize == 32

Min(a, b) == IF a < b THEN a ELSE b

(***************************************************************************)
(* Strings.                                                                *)
(***************************************************************************)
MESOS_TASK_ID == <<"M","E","S","O","S","_","T","A","S","K","_","I","D">>

\* str.split(sep) for a one-character separator: the list of the pieces
\* between the occurrences of sep (one piece when sep does not occur).
RECURSIVE Split(_, _)
Split(s, sep) ==
    IF \A i \in 1..Len(s) : s[i] # sep
    THEN <<s>>
    ELSE LET i == CHOOSE i \in 1..Len(s) :
                     s[i] = sep /\ \A j \in 1..(i - 1) : s[j] # sep
         IN  <<SubSeq(s, 1, i - 1)>> \o Split(SubSeq(s, i + 1, Len(s)), sep)

\* the task id kept whole
ShortAll(s) == s

\* taskid[:8]
Short(s) == SubSeq(s, 1, Min(ShortLen, Len(s)))

Digit(d) == <<"0","1","2","3","4","5","6","7","8","9">>[d + 1]

\* "cpu{:02d}".format(cpu), for cpu < 100
CpuLabel(cpu) == <<"c","p","u", Digit(cpu \div 10), Digit(cpu % 10)>>

(***************************************************************************)
(* The containers of the host: the Env list docker inspect returns for     *)
(* each container id.                                                      *)
(***************************************************************************)
EnvPath == <<"P","=","1">>

Containers == {"cA", "cB", "cN", "cX", "cD", "cE", "cY"}

Env(cid) ==
    CASE cid = "cA" -> <<EnvPath,
                         MESOS_TASK_ID \o <<"=","a",".","t","a","s","k","0","0","0","0","1">> >>
      [] cid = "cB" -> <<MESOS_TASK_ID \o <<"=","a",".","t","a","s","k","0","0","0","0","2">>,
                         EnvPath>>
      [] cid = "cN" -> <<EnvPath>>
      [] cid = "cX" -> <<MESOS_TASK_ID \o <<"=","a",".","x">>,
                         <<"O","=","-","D","k","=","v">> >>
      [] cid = "cD" -> <<MESOS_TASK_ID \o <<"=","a",".","f">>,
                         MESOS_TASK_ID \o <<"=","b",".","l">> >>
      [] cid = "cE" -> <<MESOS_TASK_ID \o <<"=",".","x">> >>
      [] cid = "cY" -> <<MESOS_TASK_ID \o <<"=","a","b">> >>

\* self._client.api.inspect_container(container_id)
Inspect(cid) == [Config |-> [Env |-> Env(cid)]]

(***************************************************************************)
(* Identity resolution: the loop over the environment in collect().        *)
(* st is "none" while appid = taskid = None, "ok" once both were assigned, *)
(* "error" when an unpacking raised ValueError.                            *)
(***************************************************************************)
NoIdentity == [st |-> "none", appid |-> <<>>, taskid |-> <<>>]

\* the loop body with a break after the first MESOS_TASK_ID entry
EnvStepFirstOnly(id, env_var) ==
    IF id.st = "ok" THEN id
    ELSE LET kv == Split(env_var, "=") IN
         IF Len(kv) # 2 THEN [id EXCEPT !.st = "error"]
         ELSE IF kv[1] # MESOS_TASK_ID THEN id
         ELSE LET at == Split(kv[2], ".") IN
              IF Len(at) # 2 THEN [id EXCEPT !.st = "error"]
              ELSE [st |-> "ok", appid |-> at[1], taskid |-> Short(at[2])]

\* one iteration of the loop body on env_var, from the identity so far
EnvStep(id, env_var) ==
    LET kv == Split(env_var, "=") IN
    IF Len(kv) # 2 THEN [id EXCEPT !.st = "error"]
    ELSE IF kv[1] # MESOS_TASK_ID THEN id
    ELSE LET at == Split(kv[2], ".") IN
         IF Len(at) # 2 THEN [id EXCEPT !.st = "error"]
         ELSE [st |-> "ok", appid |-> at[1], taskid |-> Short(at[2])]

RECURSIVE EnvLoop(_, _, _)
EnvLoop(env, i, id) ==
    IF i > Len(env) \/ id.st = "error" THEN id
    ELSE EnvLoop(env, i + 1, EnvStep(id, env[i]))

ResolveIdentity(details) == EnvLoop(details.Config.Env, 1, NoIdentity)

\* "if appid and taskid": both assigned and non-empty
Truthy(id) == id.st = "ok" /\ Len(id.appid) > 0 /\ Len(id.taskid) > 0

(***************************************************************************)
(* Metric families, in the order the constructors define them (the order   *)
(* in which collect() yields them).                                        *)
(***************************************************************************)
NetFamilies == <<"container_network_receive_bytes_total",
                 "container_network_receive_errors_total",
                 "container_network_receive_packets_total",
                 "container_network_receive_packets_dropped_total",
                 "container_network_transmit_bytes_total",
                 "container_network_transmit_errors_total",
                 "container_network_transmit_packets_total",
                 "container_network_transmit_packets_dropped_total">>

\* NetworkStatsCollector.METRIC_NAME_TO_DOCKER_STAT
NetField(f) ==
    CASE f = "container_network_receive_bytes_total" -> "rx_bytes"
      [] f = "container_network_receive_errors_total" -> "rx_errors"
      [] f = "container_network_receive_packets_total" -> "rx_packets"
      [] f = "container_network_receive_packets_dropped_total" -> "rx_dropped"
      [] f = "container_network_transmit_bytes_total" -> "tx_bytes"
      [] f = "container_network_transmit_errors_total" -> "tx_errors"
      [] f = "container_network_transmit_packets_total" -> "tx_packets"
      [] f = "container_network_transmit_packets_dropped_total" -> "tx_dropped"

MemFamilies == <<"container_memory_cache",
                 "container_memory_rss",
                 "container_memory_swap",
                 "container_memory_usage_bytes",
                 "container_memory_usage_percent">>

CpuFamilies == <<"container_cpu_system_seconds_total",
                 "container_cpu_kernel_seconds_total",
                 "container_cpu_user_seconds_total",
                 "container_cpu_usage_seconds_total",
                 "container_cpu_usage_percent">>

\* the sub-collectors without the memory one
FamiliesNoMemory == NetFamilies \o CpuFamilies

\* self._subcollectors, flattened: the order of the yields of collect()
Families == NetFamilies \o MemFamilies \o CpuFamilies

Range(q) == {q[i] : i \in 1..Len(q)}

FamilySet == Range(Families)

LRUFamilies == <<"exporter_details_cache_hits_total",
                 "exporter_details_cache_misses_total",
                 "exporter_details_cache_max_size",
                 "exporter_details_cache_current_size">>

(***************************************************************************)
(* Sample values: an int is kept as it is, a float is the exact rational   *)
(* <<numerator, denominator>> in lowest terms.                             *)
(***************************************************************************)
RECURSIVE GCD(_, _)
GCD(a, b) == IF b = 0 THEN a ELSE GCD(b, a % b)

Abs(x) == IF x < 0 THEN -x ELSE x

\* n / d, d # 0
Ratio(n, d) ==
    LET g == GCD(Abs(n), Abs(d))
        sgn == IF d < 0 THEN -1 ELSE 1
    IN  <<sgn * (n \div g), sgn * (d \div g)>>

\* ns_to_sec(value) = value / 1000000000.0
ns_to_sec(value) == Ratio(value, 1000000000)

(***************************************************************************)
(* The stats documents the runtime returns (api.stats(..., stream=False)). *)
(***************************************************************************)
DocOK ==
    [networks |-> << [name |-> "eth0",
                      rx_bytes |-> 11, rx_errors |-> 12, rx_packets |-> 13,
                      rx_dropped |-> 14, tx_bytes |-> 15, tx_errors |-> 16,
                      tx_packets |-> 17, tx_dropped |-> 18] >>,
     memory_stats |-> [usage |-> 50, limit |-> 200,
                       stats |-> [cache |-> 21, rss |-> 22, swap |-> 23]],
     cpu_stats |-> [system_cpu_usage |-> 500000,
                    cpu_usage |-> [total_usage |-> 2000,
                                   usage_in_kernelmode |-> 300,
                                   usage_in_usermode |-> 700,
                                   percpu_usage |-> <<400, 600>>]],
     precpu_stats |-> [system_cpu_usage |-> 490000,
                       cpu_usage |-> [total_usage |-> 1000]]]

\* a container that stopped between the listing and the fetch: the two
\* system readings are equal
DocZeroSys ==
    [DocOK EXCEPT !.precpu_stats.system_cpu_usage = 500000,
                  !.precpu_stats.cpu_usage.total_usage = 2000]

StatsDoc(d) == IF d = "ok" THEN DocOK ELSE DocZeroSys

DocNames == {"ok", "zerosys"}

(***************************************************************************)
(* The sub-collectors' add_container.  S maps each family to its list of   *)
(* samples; a sample carries its label values, its value and (for the      *)
(* properties only) src, the fetch thread that appended it, named by the   *)
(* cycle that started it and its container.  Each operator returns the     *)
(* families after the appends made and whether the call returned (ok) or   *)
(* raised part-way.                                                        *)
(***************************************************************************)
Sample(labels, value, w) == [labels |-> labels, value |-> value, src |-> w]

AddMetric(S, f, smp) == [S EXCEPT ![f] = Append(@, smp)]

\* NetworkStatsCollector.add_container
NetworkAdd(S, appid, taskid, doc, w) ==
    LET nets == doc.networks IN
    [S |-> [f \in DOMAIN S |->
              IF f \in Range(NetFamilies)
              THEN S[f] \o [n \in 1..Len(nets) |->
                              Sample(<<nets[n].name, appid, taskid>>,
                                     nets[n][NetField(f)], w)]
              ELSE S[f]],
     ok |-> TRUE]

\* MemoryStatsCollector.add_container
MemoryAdd(S, appid, taskid, doc, w) ==
    LET mem == doc.memory_stats
        l   == <<appid, taskid>>
        S1  == AddMetric(S, "container_memory_cache", Sample(l, mem.stats.cache, w))
        S2  == AddMetric(S1, "container_memory_rss", Sample(l, mem.stats.rss, w))
        S3  == AddMetric(S2, "container_memory_swap", Sample(l, mem.stats.swap, w))
        S4  == AddMetric(S3, "container_memory_usage_bytes", Sample(l, mem.usage, w))
    IN  IF mem.limit = 0
        THEN [S |-> S4, ok |-> FALSE]
        ELSE [S |-> AddMetric(S4, "container_memory_usage_percent",
                              Sample(l, Ratio(mem.usage * 100, mem.limit), w)),
              ok |-> TRUE]

\* add_container with the percentage of one core: the number of cores left out
CPUAddOneCore(S, appid, taskid, doc, w) ==
    LET cpu_stats == doc.cpu_stats
        pre_cpu_stats == doc.precpu_stats
        cpu_usage == cpu_stats.cpu_usage
        l   == <<appid, taskid>>
        S1  == AddMetric(S, "container_cpu_system_seconds_total",
                         Sample(l, ns_to_sec(cpu_stats.system_cpu_usage), w))
        S2  == AddMetric(S1, "container_cpu_kernel_seconds_total",
                         Sample(l, ns_to_sec(cpu_usage.usage_in_kernelmode), w))
        S3  == AddMetric(S2, "container_cpu_user_seconds_total",
                         Sample(l, ns_to_sec(cpu_usage.usage_in_usermode), w))
        S4  == [S3 EXCEPT !["container_cpu_usage_seconds_total"] =
                  @ \o [c \in 1..Len(cpu_usage.percpu_usage) |->
                          Sample(<<CpuLabel(c - 1), appid, taskid>>,
                                 ns_to_sec(cpu_usage.percpu_usage[c]), w)]]
        cpu_delta == cpu_usage.total_usage - pre_cpu_stats.cpu_usage.total_usage
        sys_delta == cpu_stats.system_cpu_usage - pre_cpu_stats.system_cpu_usage
    IN  IF sys_delta = 0
        THEN [S |-> S4, ok |-> FALSE]
        ELSE [S |-> AddMetric(S4, "container_cpu_usage_percent",
                              Sample(l, Ratio(cpu_delta * 100, sys_delta), w)),
              ok |-> TRUE]

\* CPUStatsCollector.add_container
CPUAdd(S, appid, taskid, doc, w) ==
    LET cpu_stats == doc.cpu_stats
        pre_cpu_stats == doc.precpu_stats
        cpu_usage == cpu_stats.cpu_usage
        l   == <<appid, taskid>>
        S1  == AddMetric(S, "container_cpu_system_seconds_total",
                         Sample(l, ns_to_sec(cpu_stats.system_cpu_usage), w))
        S2  == AddMetric(S1, "container_cpu_kernel_seconds_total",
                         Sample(l, ns_to_sec(cpu_usage.usage_in_kernelmode), w))
        S3  == AddMetric(S2, "container_cpu_user_seconds_total",
                         Sample(l, ns_to_sec(cpu_usage.usage_in_usermode), w))
        S4  == [S3 EXCEPT !["container_cpu_usage_seconds_total"] =
                  @ \o [c \in 1..Len(cpu_usage.percpu_usage) |->
                          Sample(<<CpuLabel(c - 1), appid, taskid>>,
                                 ns_to_sec(cpu_usage.percpu_usage[c]), w)]]
        cpu_delta == cpu_usage.total_usage - pre_cpu_stats.cpu_usage.total_usage
        sys_delta == cpu_stats.system_cpu_usage - pre_cpu_stats.system_cpu_usage
    IN  IF sys_delta = 0
        THEN [S |-> S4, ok |-> FALSE]
        ELSE [S |-> AddMetric(S4, "container_cpu_usage_percent",
                              Sample(l, Ratio(cpu_delta * Len(cpu_usage.percpu_usage) * 100,
                                              sys_delta), w)),
              ok |-> TRUE]

\* BaseStatsCollector.cleanup_samples, for the three sub-collectors
NoSamples == [f \in FamilySet |-> <<>>]

(***************************************************************************)
(* State.                                                                  *)
(***************************************************************************)
VARIABLES
    host,        \* the containers that exist on the docker host
    sc,          \* the scrape threads, each running collect() cycles
    workers,     \* the fetch threads, by <<cycle, container id>>
    lock,        \* self._lock: <<>> when free, else the fetch thread holding it
    samples,     \* the samples of the families of the three sub-collectors
    cache,       \* the keys held by lru_cache(_details), least recent first
    hits,        \* cache_info().hits
    misses,      \* cache_info().misses
    lrusamples,  \* the samples of the families of LRUCacheStatsCollector
    ncycles,     \* collect() cycles started so far
    nworkers,    \* fetch threads started so far
    unit         \* the call under way when one operation is run on its own

vars == <<host, sc, workers, lock, samples, cache, hits, misses, lrusamples,
          ncycles, nworkers, unit>>

Free == <<>>

\* the results self._client.api.containers(all=False) can have: the running
\* containers of the host, each once, in any order
Listings(h) ==
    {l \in UNION {[1..n -> h] : n \in 0..Cardinality(h)} :
        \A a, b \in 1..Len(l) : a # b => l[a] # l[b]}

NoLRUSamples == [f \in Range(LRUFamilies) |-> <<>>]

\* no operation is run on its own: the collector runs as a whole
NoUnit == [kind |-> "none"]

\* a scrape thread outside any cycle; lout keeps what the last call of
\* LRUCacheStatsCollector.collect() returned
IdleScraper(lout) ==
    [pc |-> "idle", cycle |-> 0, listing |-> <<>>, i |-> 0, threads |-> <<>>,
     j |-> 0, left |-> 0, waited |-> 0, joined |-> {}, k |-> 0,
     out |-> NoSamples, err |-> "none", lout |-> lout]

InitWith(hosts, n) ==
    /\ host \in hosts
    /\ sc = [s \in 1..n |-> IdleScraper(NoLRUSamples)]
    /\ workers = <<>>
    /\ lock = Free
    /\ samples = NoSamples
    /\ cache = <<>>
    /\ hits = 0
    /\ misses = 0
    /\ lrusamples = NoLRUSamples
    /\ ncycles = 0
    /\ nworkers = 0
    /\ unit = NoUnit

\* one scrape at a time, on any host of MaxHost containers
Init == InitWith({h \in SUBSET Containers : Cardinality(h) = MaxHost}, 1)

\* two scrape threads on the same collector, on a host of one container
\* with an identity
InitConc == InitWith({{"cA"}}, 2)

Finished(w) == workers[w].pc \in {"done", "raised"}

\* A Thread object lives while it runs or while the threads list of a
\* collect() that has not returned holds it.
Reap(W, S) ==
    LET keep == {w \in DOMAIN W :
                    \/ W[w].pc \notin {"done", "raised"}
                    \/ \E s \in DOMAIN S : S[s].cycle = w[1]}
    IN  [w \in keep |-> W[w]]

(***************************************************************************)
(* collect(): the reset.  The generator starts, takes the lock in          *)
(* cleanup_samples and empties every family of the three sub-collectors.   *)
(***************************************************************************)
CleanupSamples(S) == [f \in DOMAIN S |-> <<>>]

StartCycle(s) ==
    /\ sc[s].pc \in {"idle", "failed"}
    /\ ncycles < MaxCycles
    /\ lock = Free
    /\ ncycles' = ncycles + 1
    /\ samples' = CleanupSamples(samples)
    /\ sc' = [sc EXCEPT ![s] = [IdleScraper(sc[s].lout) EXCEPT
                                  !.pc = "list", !.cycle = ncycles + 1]]
    /\ workers' = Reap(workers, sc')
    /\ UNCHANGED <<unit, host, lock, cache, hits, misses, lrusamples, nworkers>>

(***************************************************************************)
(* collect(): self._client.api.containers(all=False) raises, and the       *)
(* exception leaves collect().                                             *)
(***************************************************************************)
\* the listing error swallowed: collect() goes on as with an empty listing
AfterListErrorSwallowed(r) == [r EXCEPT !.pc = "export", !.err = "list"]

AfterListError(r) == [r EXCEPT !.pc = "failed", !.err = "list"]

ListFails(s) ==
    /\ sc[s].pc = "list"
    /\ sc' = [sc EXCEPT ![s] = AfterListError(sc[s])]
    /\ UNCHANGED <<unit, host, workers, lock, samples, cache, hits, misses, lrusamples,
                   ncycles, nworkers>>

\* the join loop is entered with the first join(5) called, or skipped
EnterJoin(r) ==
    IF r.threads = <<>>
    THEN [r EXCEPT !.pc = "export"]
    ELSE [r EXCEPT !.pc = "join", !.j = 1, !.left = JoinTimeout, !.waited = 0]

(***************************************************************************)
(* lru_cache(maxsize=32) around _details.                                  *)
(***************************************************************************)
\* a cache that never finds a key
InCacheNever(c, cid) == FALSE

InCache(c, cid) == \E n \in 1..Len(c) : c[n] = cid

Without(c, cid) == SelectSeq(c, LAMBDA x : x # cid)

\* the keys after a lookup of cid when a hit leaves the order as it is: the
\* key dropped on a miss with a full cache is the one stored first
CacheAfterNoRefresh(c, cid) ==
    IF InCache(c, cid) THEN c
    ELSE IF Len(c) >= CacheMaxSize THEN Append(Tail(c), cid)
    ELSE Append(c, cid)

\* the keys after a lookup of cid: cid becomes the most recent one, and on a
\* miss with a full cache the least recent key is dropped
CacheAfter(c, cid) ==
    IF InCache(c, cid) THEN Append(Without(c, cid), cid)
    ELSE IF Len(c) >= CacheMaxSize THEN Append(Tail(c), cid)
    ELSE Append(c, cid)

\* "if taskid": the appid not looked at
EligibleTaskOnly(id) == id.st = "ok" /\ Len(id.taskid) > 0

\* "if appid and taskid": whether the loop body starts a fetch thread
Eligible(id) == Truthy(id)

\* the fetch threads a listing makes collect() start
Starts(l) ==
    Cardinality({n \in 1..Len(l) : LET id == ResolveIdentity(Inspect(l[n]))
                                   IN  id.st # "error" /\ Eligible(id)})

\* collect(): the listing returns l
List(s) ==
    /\ sc[s].pc = "list"
    /\ \E l \in Listings(host) :
          /\ nworkers + Starts(l) <= MaxWorkers
          /\ sc' = [sc EXCEPT ![s] =
                      IF l = <<>> THEN EnterJoin([sc[s] EXCEPT !.listing = l])
                      ELSE [sc[s] EXCEPT !.pc = "resolve", !.listing = l, !.i = 1]]
    /\ UNCHANGED <<unit, host, workers, lock, samples, cache, hits, misses, lrusamples,
                   ncycles, nworkers>>

(***************************************************************************)
(* collect(): one iteration of the loop over the listing: the details of   *)
(* the container (through the cache), its identity, and the fetch thread   *)
(* started by async_call when both appid and taskid are set.               *)
(***************************************************************************)
\* what the loop over the environment gives for the details of each
\* container (the environment of a container does not change)
IdentityOf == [cid \in Containers |-> ResolveIdentity(Inspect(cid))]

NewWorker(id) ==
    [appid |-> id.appid, taskid |-> id.taskid,
     pc |-> "fetch", dur |-> 0, doc |-> "none"]

Resolve(s) ==
    /\ sc[s].pc = "resolve"
    /\ LET r   == sc[s]
           cid == r.listing[r.i]
           id  == IdentityOf[cid]
           w   == <<r.cycle, cid>>
           go  == id.st # "error" /\ Eligible(id)
           r1  == [r EXCEPT !.i = @ + 1,
                            !.threads = IF go THEN Append(@, w) ELSE @]
       IN  /\ IF InCache(cache, cid)
              THEN hits' = hits + 1 /\ misses' = misses
              ELSE misses' = misses + 1 /\ hits' = hits
           /\ cache' = CacheAfter(cache, cid)
           /\ workers' = IF go THEN workers @@ (w :> NewWorker(id)) ELSE workers
           /\ nworkers' = IF go THEN nworkers + 1 ELSE nworkers
           /\ sc' = [sc EXCEPT ![s] =
                      IF id.st = "error"
                      THEN [r EXCEPT !.pc = "failed", !.err = "resolve"]
                      ELSE IF r1.i > Len(r.listing) THEN EnterJoin(r1)
                      ELSE r1]
    /\ UNCHANGED <<unit, host, lock, samples, lrusamples, ncycles>>

(***************************************************************************)
(* collect(): thread.join(5) returns, because the thread ended or because  *)
(* 5 time units passed.                                                    *)
(***************************************************************************)
NextJoin(r) ==
    IF r.j >= Len(r.threads)
    THEN [r EXCEPT !.pc = "export", !.j = @ + 1]
    ELSE [r EXCEPT !.j = @ + 1, !.left = JoinTimeout]

\* join returning without waiting for the thread
JoinNoWait(s) ==
    /\ sc[s].pc = "join"
    /\ sc' = [sc EXCEPT ![s] =
                 NextJoin([sc[s] EXCEPT !.joined = @ \cup {sc[s].threads[sc[s].j]}])]
    /\ UNCHANGED <<unit, host, workers, lock, samples, cache, hits, misses, lrusamples,
                   ncycles, nworkers>>

JoinEnded(s) ==
    /\ sc[s].pc = "join"
    /\ Finished(sc[s].threads[sc[s].j])
    /\ sc' = [sc EXCEPT ![s] =
                 NextJoin([sc[s] EXCEPT !.joined = @ \cup {sc[s].threads[sc[s].j]}])]
    /\ UNCHANGED <<unit, host, workers, lock, samples, cache, hits, misses, lrusamples,
                   ncycles, nworkers>>

JoinTimedOut(s) ==
    /\ sc[s].pc = "join"
    /\ ~Finished(sc[s].threads[sc[s].j])
    /\ sc[s].left = 0
    /\ sc' = [sc EXCEPT ![s] = NextJoin(sc[s])]
    /\ UNCHANGED <<unit, host, workers, lock, samples, cache, hits, misses, lrusamples,
                   ncycles, nworkers>>

(***************************************************************************)
(* collect(): the yields of the families of one sub-collector.  The        *)
(* consumer reads the samples of each family it is handed; out keeps what  *)
(* it read and k counts the families yielded.  After the last family the   *)
(* registry goes on to LRUCacheStatsCollector.                             *)
(***************************************************************************)
\* the families of the sub-collector that follows k yielded families
Collector(k) ==
    IF k < Len(NetFamilies) THEN NetFamilies
    ELSE IF k < Len(NetFamilies) + Len(MemFamilies) THEN MemFamilies
    ELSE CpuFamilies

Yield(s) ==
    /\ sc[s].pc = "export"
    /\ LET fs == Collector(sc[s].k) IN
       sc' = [sc EXCEPT ![s] =
                [sc[s] EXCEPT !.out = [f \in FamilySet |->
                                         IF f \in Range(fs) THEN samples[f] ELSE @[f]],
                              !.k = @ + Len(fs),
                              !.pc = IF sc[s].k + Len(fs) = Len(Families)
                                     THEN "lru" ELSE "export"]]
    /\ UNCHANGED <<unit, host, workers, lock, samples, cache, hits, misses, lrusamples,
                   ncycles, nworkers>>

(***************************************************************************)
(* LRUCacheStatsCollector.collect(), called by the registry after the      *)
(* families of DockerStatsCollector; then the scrape is over.  The         *)
(* collector never clears its families (cleanup_samples is not called on   *)
(* it), so each call appends to what the earlier calls left.  cache_info() *)
(* is modelled as answering for the lru_cache of _details; main() hands    *)
(* the collector the class DockerStatsCollector, whose cache_info wants an *)
(* instance, and that call is not modelled.                                *)
(***************************************************************************)
CacheInfo == [hits |-> hits, misses |-> misses,
              maxsize |-> CacheMaxSize, currsize |-> Len(cache)]

LRUAdd(L, info) ==
    [L EXCEPT !["exporter_details_cache_hits_total"] = Append(@, info.hits),
              !["exporter_details_cache_misses_total"] = Append(@, info.misses),
              !["exporter_details_cache_max_size"] = Append(@, info.maxsize),
              !["exporter_details_cache_current_size"] = Append(@, info.currsize)]

LRUCollect(s) ==
    /\ sc[s].pc = "lru"
    /\ lrusamples' = LRUAdd(lrusamples, CacheInfo)
    /\ sc' = [sc EXCEPT ![s] = IdleScraper(lrusamples')]
    /\ workers' = Reap(workers, sc')
    /\ UNCHANGED <<unit, host, lock, samples, cache, hits, misses, ncycles, nworkers>>

(***************************************************************************)
(* _fetch_stats in its thread: the stats call returns a document or        *)
(* raises; then add_container under the lock, one sub-collector after the  *)
(* other.  An exception in a sub-collector leaves the with block, which    *)
(* releases the lock, and ends the thread.                                 *)
(***************************************************************************)
FetchReturns(w) ==
    /\ workers[w].pc = "fetch"
    /\ \E d \in DocNames :
          workers' = [workers EXCEPT ![w].pc = "ready", ![w].doc = d]
    /\ UNCHANGED <<unit, host, sc, lock, samples, cache, hits, misses, lrusamples,
                   ncycles, nworkers>>

FetchRaises(w) ==
    /\ workers[w].pc = "fetch"
    /\ workers' = Reap([workers EXCEPT ![w].pc = "raised"], sc)
    /\ UNCHANGED <<unit, host, sc, lock, samples, cache, hits, misses, lrusamples,
                   ncycles, nworkers>>

\* the state of the thread and of the lock after a sub-collector's call
AfterAdd(w, res, nextpc) ==
    /\ samples' = res.S
    /\ workers' = Reap([workers EXCEPT ![w].pc = IF res.ok THEN nextpc ELSE "raised"], sc)
    /\ lock' = IF res.ok /\ nextpc # "done" THEN w ELSE Free

\* add_container entered without taking the lock
AddNetworkNoLock(w) ==
    /\ workers[w].pc = "ready"
    /\ AfterAdd(w, NetworkAdd(samples, workers[w].appid, workers[w].taskid,
                              StatsDoc(workers[w].doc), w), "mem")
    /\ UNCHANGED <<unit, host, sc, cache, hits, misses, lrusamples, ncycles, nworkers>>

AddNetwork(w) ==
    /\ workers[w].pc = "ready"
    /\ lock = Free
    /\ AfterAdd(w, NetworkAdd(samples, workers[w].appid, workers[w].taskid,
                              StatsDoc(workers[w].doc), w), "mem")
    /\ UNCHANGED <<unit, host, sc, cache, hits, misses, lrusamples, ncycles, nworkers>>

AddMemory(w) ==
    /\ workers[w].pc = "mem"
    /\ lock = w
    /\ AfterAdd(w, MemoryAdd(samples, workers[w].appid, workers[w].taskid,
                             StatsDoc(workers[w].doc), w), "cpu")
    /\ UNCHANGED <<unit, host, sc, cache, hits, misses, lrusamples, ncycles, nworkers>>

AddCPU(w) ==
    /\ workers[w].pc = "cpu"
    /\ lock = w
    /\ AfterAdd(w, CPUAdd(samples, workers[w].appid, workers[w].taskid,
                          StatsDoc(workers[w].doc), w), "done")
    /\ UNCHANGED <<unit, host, sc, cache, hits, misses, lrusamples, ncycles, nworkers>>

(***************************************************************************)
(* One time unit passes.  Time is spent in the blocking waits only: in the *)
(* stats call of a fetch thread and in join(5); every other step of a      *)
(* thread that can run is taken before the clock moves, and a join whose   *)
(* 5 units are over returns before the clock moves.  dur counts the units  *)
(* a fetch has taken (up to JoinTimeout + 1), left the units the current   *)
(* join has left, waited the units since the join loop was entered.        *)
(***************************************************************************)
Running ==
    \/ \E s \in DOMAIN sc : sc[s].pc \in {"list", "resolve", "export", "lru"}
    \/ \E s \in DOMAIN sc :
          sc[s].pc = "join" /\ (sc[s].left = 0 \/ Finished(sc[s].threads[sc[s].j]))
    \/ \E w \in DOMAIN workers :
          workers[w].pc \in {"mem", "cpu"} \/ (workers[w].pc = "ready" /\ lock = Free)

Tick ==
    /\ ~Running
    /\ \/ \E w \in DOMAIN workers : workers[w].pc = "fetch" /\ workers[w].dur <= JoinTimeout
       \/ \E s \in DOMAIN sc : sc[s].pc = "join"
    /\ workers' = [w \in DOMAIN workers |->
                     IF workers[w].pc = "fetch"
                     THEN [workers[w] EXCEPT !.dur = Min(@ + 1, JoinTimeout + 1)]
                     ELSE workers[w]]
    /\ sc' = [s \in DOMAIN sc |->
                IF sc[s].pc = "join"
                THEN [sc[s] EXCEPT !.left = @ - 1,
                                   !.waited = Min(@ + 1, JoinTimeout + 1)]
                ELSE sc[s]]
    /\ UNCHANGED <<unit, host, lock, samples, cache, hits, misses, lrusamples, ncycles, nworkers>>

Next ==
    \/ \E s \in DOMAIN sc : StartCycle(s)
    \/ \E s \in DOMAIN sc : ListFails(s)
    \/ \E s \in DOMAIN sc : List(s)
    \/ \E s \in DOMAIN sc : Resolve(s)
    \/ \E s \in DOMAIN sc : JoinEnded(s)
    \/ \E s \in DOMAIN sc : JoinTimedOut(s)
    \/ \E s \in DOMAIN sc : Yield(s)
    \/ \E s \in DOMAIN sc : LRUCollect(s)
    \/ \E w \in DOMAIN workers : FetchReturns(w)
    \/ \E w \in DOMAIN workers : FetchRaises(w)
    \/ \E w \in DOMAIN workers : AddNetwork(w)
    \/ \E w \in DOMAIN workers : AddMemory(w)
    \/ \E w \in DOMAIN workers : AddCPU(w)
    \/ Tick

Spec == Init /\ [][Next]_vars

SpecConc == InitConc /\ [][Next]_vars

(***************************************************************************)
(* Progress.  A thread that can take a step takes it: the scrape thread    *)
(* goes on when the listing or an inspect call returns, when a join        *)
(* returns and when the consumer asks for the next family; a fetch thread  *)
(* that has its stats and the lock goes through add_container; and time    *)
(* passes.  Nothing makes a scrape start, and nothing makes a stats call   *)
(* return or raise.                                                        *)
(***************************************************************************)
\* the collector after a first scrape that listed no container, on a host
\* of two containers with an identity or on a host where one container's
\* environment cannot be parsed
InitLive ==
    /\ host \in {{"cA", "cB"}, {"cA", "cX"}}
    /\ lrusamples = LRUAdd(NoLRUSamples, [hits |-> 0, misses |-> 0,
                                          maxsize |-> CacheMaxSize, currsize |-> 0])
    /\ sc = [s \in 1..1 |-> IdleScraper(lrusamples)]
    /\ workers = <<>>
    /\ lock = Free
    /\ samples = NoSamples
    /\ cache = <<>>
    /\ hits = 0
    /\ misses = 0
    /\ ncycles = 1
    /\ nworkers = 0
    /\ unit = NoUnit

WorkerIds == (1..MaxCycles) \X Containers

Fairness ==
    /\ WF_vars(\/ List(1) \/ ListFails(1) \/ Resolve(1) \/ JoinEnded(1)
               \/ JoinTimedOut(1) \/ Yield(1) \/ LRUCollect(1))
    /\ WF_vars(\E w \in WorkerIds :
                  w \in DOMAIN workers /\ (AddNetwork(w) \/ AddMemory(w) \/ AddCPU(w)))
    /\ WF_vars(Tick)

SpecLive == InitLive /\ [][Next]_vars /\ Fairness

(***************************************************************************)
(* One container on its own: the identity collect() derives from an        *)
(* environment, then DockerStatsCollector.add_container on the container's *)
(* stats document.  The inputs are drawn at the start: the appId and the   *)
(* task id of the MESOS_TASK_ID entry, the entries around it, and the cpu  *)
(* readings of the document.                                               *)
(***************************************************************************)
\* cpu cores of a stats document (the length of percpu_usage)
MaxCores == 4

UnitApps == {<<"m","y","a","p","p">>, <<"a">>}

LongTask == <<"a","b","c","d","e","f","g","h","1","2","3","4">>

UnitTasks == {SubSeq(LongTask, 1, n) : n \in 0..Len(LongTask)}

TaskEntry(app, task) == MESOS_TASK_ID \o <<"=">> \o app \o <<".">> \o task

UnitEnvs(app, task) ==
    {pre \o <<TaskEntry(app, task)>> \o post : pre, post \in {<<>>, <<EnvPath>>}}

\* a stats document with the given cpu readings and number of cores
CpuDoc(total, pretotal, system, presystem, cores) ==
    [DocOK EXCEPT !.cpu_stats.system_cpu_usage = system,
                  !.cpu_stats.cpu_usage.total_usage = total,
                  !.cpu_stats.cpu_usage.percpu_usage = [c \in 1..cores |-> 100 * c],
                  !.precpu_stats.system_cpu_usage = presystem,
                  !.precpu_stats.cpu_usage.total_usage = pretotal]

UnitDocs ==
    {CpuDoc(total, 1000, 500000, presystem, cores) :
        total \in {2000, 1333}, presystem \in {490000, 500000}, cores \in 1..MaxCores}

\* the fetch thread of the container run on its own
UnitWorker == <<0, "unit">>

InitUnit ==
    /\ unit \in {[kind |-> "container", pc |-> "resolve", app |-> app, task |-> task,
                  env |-> env, doc |-> doc, id |-> NoIdentity, ok |-> TRUE] :
                    app \in UnitApps, task \in UnitTasks,
                    env \in UNION {UnitEnvs(a, t) : a \in UnitApps, t \in UnitTasks},
                    doc \in UnitDocs}
    /\ unit.env \in UnitEnvs(unit.app, unit.task)
    /\ host = {}
    /\ sc = <<>>
    /\ workers = <<>>
    /\ lock = Free
    /\ samples = NoSamples
    /\ cache = <<>>
    /\ hits = 0
    /\ misses = 0
    /\ lrusamples = NoLRUSamples
    /\ ncycles = 0
    /\ nworkers = 0

\* collect(): the identity of the container from its environment
UnitResolve ==
    /\ unit.kind = "container"
    /\ unit.pc = "resolve"
    /\ LET id == ResolveIdentity([Config |-> [Env |-> unit.env]]) IN
       unit' = [unit EXCEPT !.id = id,
                            !.pc = IF id.st # "error" /\ Eligible(id)
                                   THEN "add" ELSE "ignored"]
    /\ UNCHANGED <<host, sc, workers, lock, samples, cache, hits, misses,
                   lrusamples, ncycles, nworkers>>

\* DockerStatsCollector.add_container: the three sub-collectors in turn, up
\* to the first that raises
AddContainer(S, appid, taskid, doc, w) ==
    LET n == NetworkAdd(S, appid, taskid, doc, w)
        m == MemoryAdd(n.S, appid, taskid, doc, w)
        c == CPUAdd(m.S, appid, taskid, doc, w)
    IN  IF ~n.ok THEN n ELSE IF ~m.ok THEN m ELSE c

UnitAdd ==
    /\ unit.kind = "container"
    /\ unit.pc = "add"
    /\ LET res == AddContainer(samples, unit.id.appid, unit.id.taskid,
                               unit.doc, UnitWorker) IN
       /\ samples' = res.S
       /\ unit' = [unit EXCEPT !.pc = "done", !.ok = res.ok]
    /\ UNCHANGED <<host, sc, workers, lock, cache, hits, misses,
                   lrusamples, ncycles, nworkers>>

NextUnit ==
    \/ UnitResolve
    \/ UnitAdd

SpecUnit == InitUnit /\ [][NextUnit]_vars

(***************************************************************************)
(* _details on its own: a sequence of calls _details(container_id) on the  *)
(* lru_cache, each for a container id not looked up before (the ids are    *)
(* 1, 2, ... in the order of their first lookup) or for one of the first   *)
(* ids again.  What inspect_container returns is the pair of the container *)
(* id and the number of the inspect call that produced it, so that a       *)
(* stored result differs from a new one.                                   *)
(***************************************************************************)
\* container ids looked up in one behaviour
MaxKeys == 34
\* lookups, in one behaviour, of a container id that was looked up before
MaxRepeat == 2
\* the container ids that are looked up again
RepeatKeys == {1, 2}

NoDetails == <<>>

InitCache ==
    /\ unit = [kind |-> "cache", fresh |-> 0, repeats |-> 0, clock |-> 0, calls |-> 0,
               when |-> [k \in 1..MaxKeys |-> 0],
               store |-> [k \in 1..MaxKeys |-> NoDetails],
               last |-> [key |-> 0, before |-> <<>>, kept |-> NoDetails,
                         ret |-> NoDetails, hits |-> 0, misses |-> 0, calls |-> 0]]
    /\ host = {}
    /\ sc = <<>>
    /\ workers = <<>>
    /\ lock = Free
    /\ samples = NoSamples
    /\ cache = <<>>
    /\ hits = 0
    /\ misses = 0
    /\ lrusamples = NoLRUSamples
    /\ ncycles = 0
    /\ nworkers = 0

\* self._details(cid): the stored details on a hit; on a miss the call of
\* inspect_container, its result stored and the least recent key dropped
\* when the cache was full
Details(cid) ==
    /\ unit.kind = "cache"
    /\ \/ cid = unit.fresh + 1
       \/ cid \in RepeatKeys /\ cid <= unit.fresh /\ unit.repeats < MaxRepeat
    /\ LET hit == InCache(cache, cid)
           ret == IF hit THEN unit.store[cid] ELSE <<cid, unit.calls + 1>>
           c1  == CacheAfter(cache, cid)
       IN  /\ cache' = c1
           /\ hits' = IF hit THEN hits + 1 ELSE hits
           /\ misses' = IF hit THEN misses ELSE misses + 1
           /\ unit' = [unit EXCEPT
                 !.fresh = IF cid > @ THEN cid ELSE @,
                 !.repeats = IF cid > unit.fresh THEN @ ELSE @ + 1,
                 !.clock = @ + 1,
                 !.calls = IF hit THEN @ ELSE @ + 1,
                 !.when = [@ EXCEPT ![cid] = unit.clock + 1],
                 !.store = [k \in 1..MaxKeys |->
                              IF k = cid THEN ret
                              ELSE IF InCache(c1, k) THEN @[k] ELSE NoDetails],
                 !.last = [key |-> cid, before |-> cache, kept |-> unit.store[cid],
                           ret |-> ret, hits |-> hits, misses |-> misses,
                           calls |-> unit.calls]]
    /\ UNCHANGED <<host, sc, workers, lock, samples, lrusamples, ncycles, nworkers>>

NextCache == \E cid \in 1..MaxKeys : Details(cid)

SpecCache == InitCache /\ [][NextCache]_vars

(***************************************************************************)
(* Properties.                                                             *)
(***************************************************************************)
\* the families a cycle has yielded so far
Yielded(s) == {Families[n] : n \in 1..sc[s].k}

\* the samples of the list q that the fetch thread w appended
From(q, w) == SelectSeq(q, LAMBDA smp : smp.src = w)

Count(q, x) == Cardinality({n \in 1..Len(q) : q[n] = x})

\* the fetch threads whose stats call raised
FetchFailed(w) == workers[w].pc = "raised" /\ workers[w].doc = "none"

\* the number of samples a document gives one container in family f
ExpectedCount(doc, f) ==
    IF f \in Range(NetFamilies) THEN Len(doc.networks)
    ELSE IF f = "container_cpu_usage_seconds_total"
    THEN Len(doc.cpu_stats.cpu_usage.percpu_usage)
    ELSE 1

\* the environment entries keyed MESOS_TASK_ID, by position
KeyLen == Len(MESOS_TASK_ID) + 1

TaskEntries(env) ==
    {n \in 1..Len(env) :
        /\ Len(env[n]) >= KeyLen
        /\ SubSeq(env[n], 1, KeyLen) = MESOS_TASK_ID \o <<"=">>}

\* the identity the entry e, keyed MESOS_TASK_ID, stands for: what is
\* before the dot, and the first 8 characters of what is after it
EntryIdentity(e) ==
    LET v == SubSeq(e, KeyLen + 1, Len(e))
        p == CHOOSE p \in 1..Len(v) : v[p] = "."
    IN  <<SubSeq(v, 1, p - 1),
          SubSeq(v, p + 1, IF Len(v) < p + 8 THEN Len(v) ELSE p + 8)>>

\* the container has an entry keyed MESOS_TASK_ID, and the last one gives a
\* non-empty appId and a non-empty taskId
HasIdentity(cid) ==
    LET env == Env(cid)
        te  == TaskEntries(env)
    IN  /\ te # {}
        /\ LET e == env[CHOOSE n \in te : \A m \in te : m <= n]
               v == SubSeq(e, KeyLen + 1, Len(e))
           IN  \E p \in 2..(Len(v) - 1) : v[p] = "."

CountChar(e, ch) == Cardinality({n \in 1..Len(e) : e[n] = ch})

\* the environment of the container has an entry without exactly one "=",
\* or an entry keyed MESOS_TASK_ID whose value has not exactly one "."
Unparsable(cid) ==
    LET env == Env(cid) IN
    \E n \in 1..Len(env) :
        \/ CountChar(env[n], "=") # 1
        \/ n \in TaskEntries(env) /\ CountChar(env[n], ".") # 1

\* the containers of the listing that the loop of collect() has been through
Processed(s) ==
    {sc[s].listing[n] : n \in 1..Min(sc[s].i - 1, Len(sc[s].listing))}

\* C1: every sample a cycle exports was appended by a fetch thread that the
\* cycle itself started; no sample of an earlier cycle's thread is exported.
C1_OnlyOwnCycleSamples ==
    \A s \in DOMAIN sc : \A f \in FamilySet : \A n \in 1..Len(sc[s].out[f]) :
        sc[s].out[f][n].src[1] = sc[s].cycle

\* C2: a container whose fetch took longer than the join timeout has no
\* sample in the families its cycle exports.
C2_SlowFetchContributesNothing ==
    \A s \in DOMAIN sc : \A f \in FamilySet : \A n \in 1..Len(sc[s].out[f]) :
        LET w == sc[s].out[f][n].src IN
        (w[1] = sc[s].cycle /\ w \in DOMAIN workers)
            => workers[w].dur <= JoinTimeout

\* C3: a fetch that raises in its thread does not fail collect() (a cycle
\* with a failed fetch fails only at a container whose environment cannot
\* be parsed); the container of the failed fetch has no sample; and every
\* thread that ended before its join returned has all it appended in the
\* families exported: for a fetch that succeeded, the full set of samples
\* of its document.
C3_FetchErrorIsolated ==
    \A s \in DOMAIN sc : \A w \in Range(sc[s].threads) :
        /\ FetchFailed(w) =>
              /\ sc[s].pc = "failed" =>
                    /\ sc[s].err = "resolve"
                    /\ Unparsable(sc[s].listing[sc[s].i])
              /\ \A f \in FamilySet :
                    From(samples[f], w) = <<>> /\ From(sc[s].out[f], w) = <<>>
        /\ w \in sc[s].joined =>
              /\ Finished(w)
              /\ \A f \in Yielded(s) :
                    /\ From(sc[s].out[f], w) = From(samples[f], w)
                    /\ workers[w].pc = "done" =>
                          Len(From(sc[s].out[f], w))
                              = ExpectedCount(StatsDoc(workers[w].doc), f)

\* a cycle has yielded every family, one of its fetches raised and another
\* one ended in time with all its samples added
C3_Witness ==
    \E s \in DOMAIN sc :
        /\ sc[s].pc = "lru"
        /\ \E w1, w2 \in Range(sc[s].threads) :
              /\ FetchFailed(w1)
              /\ w2 \in sc[s].joined
              /\ workers[w2].pc = "done"

\* C4: an environment that cannot be parsed never fails collect(): the
\* only failure of a cycle is the failure of the listing, and a cycle that
\* exports has been through every container of its listing.
C4_UnparsableEnvIsSkipped ==
    \A s \in DOMAIN sc :
        /\ sc[s].pc = "failed" => sc[s].err = "list"
        /\ sc[s].pc \in {"join", "export", "lru"} =>
              Processed(s) = Range(sc[s].listing)

\* C5: when the listing fails, collect() fails, with no container looked
\* up, no fetch thread started and no family yielded in that cycle.
C5_ListingFailureStopsCycle ==
    \A s \in DOMAIN sc :
        sc[s].err = "list" =>
            /\ sc[s].pc = "failed"
            /\ sc[s].i = 0
            /\ sc[s].threads = <<>>
            /\ \A w \in DOMAIN workers : w[1] # sc[s].cycle
            /\ sc[s].k = 0
            /\ sc[s].out = NoSamples

\* the listing of a second cycle failed, after a cycle that looked up
\* containers
C5_Witness ==
    \E s \in DOMAIN sc : sc[s].err = "list" /\ sc[s].cycle = 2 /\ misses > 0

\* C6: with two cycles under way at once, neither exports samples of the
\* other's fetch threads, and neither loses to the other's reset the
\* samples of a thread of its own that ended in time.
C6_ConcurrentCyclesIsolated ==
    \A s, t \in DOMAIN sc :
        (s # t /\ sc[s].cycle # 0 /\ sc[t].cycle # 0) =>
            /\ \A f \in FamilySet : \A n \in 1..Len(sc[s].out[f]) :
                  sc[s].out[f][n].src[1] # sc[t].cycle
            /\ \A w \in sc[s].joined : \A f \in Yielded(s) :
                  workers[w].pc = "done" =>
                      Len(From(sc[s].out[f], w))
                          = ExpectedCount(StatsDoc(workers[w].doc), f)

\* C7: no family exported by a cycle holds two samples with the same label
\* values.
C7_UniqueLabelsPerFamily ==
    \A s \in DOMAIN sc : \A f \in FamilySet :
        \A m, n \in 1..Len(sc[s].out[f]) :
            m # n => sc[s].out[f][m].labels # sc[s].out[f][n].labels

\* C8: what LRUCacheStatsCollector.collect() returns is four families with
\* exactly one sample each, the maximum size being the cache's.
C8_LRUOneSamplePerFamily ==
    \A s \in DOMAIN sc :
        sc[s].lout # NoLRUSamples =>
            /\ \A f \in Range(LRUFamilies) : Len(sc[s].lout[f]) = 1
            /\ sc[s].lout["exporter_details_cache_max_size"] = <<CacheMaxSize>>

\* C9: in every cycle, a container the loop has been through has exactly
\* one fetch thread when it has an identity (an entry keyed MESOS_TASK_ID
\* giving a non-empty appId and taskId) and none otherwise, and no sample
\* anywhere comes from a container without an identity.
C9_WorkerIffIdentity ==
    /\ \A s \in DOMAIN sc : \A cid \in host :
          Count(sc[s].threads, <<sc[s].cycle, cid>>)
              = IF cid \in Processed(s) /\ HasIdentity(cid) THEN 1 ELSE 0
    /\ \A s \in DOMAIN sc : \A w \in Range(sc[s].threads) :
          w \in DOMAIN workers
    /\ \A w \in DOMAIN workers : HasIdentity(w[2])
    /\ \A s \in DOMAIN sc : \A f \in FamilySet :
          /\ \A n \in 1..Len(samples[f]) : HasIdentity(samples[f][n].src[2])
          /\ \A n \in 1..Len(sc[s].out[f]) : HasIdentity(sc[s].out[f][n].src[2])

\* a cycle has exported with a container without MESOS_TASK_ID, or with an
\* empty appId, listed beside one with an identity
C9_Witness ==
    \E s \in DOMAIN sc :
        /\ sc[s].pc = "lru"
        /\ Len(sc[s].threads) = 1
        /\ \E cid \in Range(sc[s].listing) : cid \in {"cN", "cE"}
        /\ \E f \in FamilySet : sc[s].out[f] # <<>>

\* C10 as amended: the identity of a fetch thread is the one of the LAST
\* environment entry keyed MESOS_TASK_ID of its container.
C10_LastTaskEntryWins ==
    \A w \in DOMAIN workers :
        LET env == Env(w[2])
            te  == TaskEntries(env)
        IN  /\ te # {}
            /\ <<workers[w].appid, workers[w].taskid>>
                  = EntryIdentity(env[CHOOSE n \in te : \A m \in te : m <= n])

\* a fetch thread runs for the container with two MESOS_TASK_ID entries
C10_Witness ==
    \E w \in DOMAIN workers :
        w[2] = "cD" /\ Cardinality(TaskEntries(Env("cD"))) > 1

\* C10 as claimed: the identity of a fetch thread is the one of the FIRST
\* environment entry keyed MESOS_TASK_ID of its container.
C10_FirstTaskEntryWins ==
    \A w \in DOMAIN workers :
        LET env == Env(w[2])
            te  == TaskEntries(env)
        IN  /\ te # {}
            /\ <<workers[w].appid, workers[w].taskid>>
                  = EntryIdentity(env[CHOOSE n \in te : \A m \in te : n <= m])

(***************************************************************************)
(* Properties of one container on its own.                                 *)
(***************************************************************************)
MyApp == <<"m","y","a","p","p">>

\* the last two label values of a sample: appid, taskid
Identity(smp) ==
    <<smp.labels[Len(smp.labels) - 1], smp.labels[Len(smp.labels)]>>

\* C11: an environment with one entry MESOS_TASK_ID=<app>.<task>, <task>
\* without a dot, resolves to appId = <app> and taskId = the first 8
\* characters of <task> (all of <task> when it is shorter);
\* myapp.abcdefgh1234 gives (myapp, abcdefgh); and these are the last two
\* label values of every sample add_container appends for the container.
C11_IdentityFromTaskEntry ==
    (unit.kind = "container" /\ unit.pc # "resolve") =>
        /\ unit.id.st = "ok"
        /\ unit.id.appid = unit.app
        /\ Len(unit.id.taskid) = (IF Len(unit.task) < 8 THEN Len(unit.task) ELSE 8)
        /\ \A n \in 1..Len(unit.id.taskid) : unit.id.taskid[n] = unit.task[n]
        /\ (unit.app = MyApp /\ unit.task = LongTask) =>
              unit.id.taskid = <<"a","b","c","d","e","f","g","h">>
        /\ unit.pc = "done" =>
              \A f \in FamilySet : \A n \in 1..Len(samples[f]) :
                  Identity(samples[f][n]) = <<unit.id.appid, unit.id.taskid>>

\* the container of myapp.abcdefgh1234 has its samples added
C11_Witness ==
    /\ unit.kind = "container"
    /\ unit.pc = "done"
    /\ unit.app = MyApp
    /\ unit.task = LongTask
    /\ \A f \in FamilySet : samples[f] # <<>>

\* C15: when the two system readings differ, add_container appends one
\* sample to container_cpu_usage_percent, of value
\* (cpu_delta / sys_delta) * cores * 100; the readings 2000, 1000, 500000,
\* 490000 on 4 cores give 40.
C15_CpuPercent ==
    (unit.kind = "container" /\ unit.pc = "done") =>
        LET cur   == unit.doc.cpu_stats
            pre   == unit.doc.precpu_stats
            cores == Len(cur.cpu_usage.percpu_usage)
            cpu_delta == cur.cpu_usage.total_usage - pre.cpu_usage.total_usage
            sys_delta == cur.system_cpu_usage - pre.system_cpu_usage
            q     == samples["container_cpu_usage_percent"]
        IN  sys_delta # 0 =>
              /\ Len(q) = 1
              /\ q[1].value[2] > 0
              /\ q[1].value[1] * sys_delta = q[1].value[2] * cpu_delta * cores * 100
              /\ (cpu_delta = 1000 /\ sys_delta = 10000 /\ cores = 4) =>
                    q[1].value = <<40, 1>>

\* the readings of the example, on 4 cores, have been added
C15_Witness ==
    /\ unit.kind = "container"
    /\ unit.pc = "done"
    /\ unit.doc.cpu_stats.cpu_usage.total_usage = 2000
    /\ unit.doc.precpu_stats.system_cpu_usage = 490000
    /\ Len(unit.doc.cpu_stats.cpu_usage.percpu_usage) = 4
    /\ Len(samples["container_cpu_usage_percent"]) = 1

(***************************************************************************)
(* Properties of _details on its own.                                      *)
(***************************************************************************)
\* the last call of _details was for a key the cache held
LastHeld == \E n \in 1..Len(unit.last.before) : unit.last.before[n] = unit.last.key

\* C12: after every call of _details: inspect_container was called in it
\* exactly when the cache did not hold the container id; on a hit the
\* stored details are returned, hits grows by one and misses stays; on a
\* miss misses grows by one, hits stays, and the result of the inspect call
\* is returned and stored under the container id.
C12_InspectIffNotCached ==
    (unit.kind = "cache" /\ unit.clock > 0) =>
        LET l == unit.last IN
        /\ unit.calls = l.calls + (IF LastHeld THEN 0 ELSE 1)
        /\ LastHeld =>
              /\ hits = l.hits + 1
              /\ misses = l.misses
              /\ l.kept # NoDetails
              /\ l.ret = l.kept
              /\ unit.store[l.key] = l.kept
        /\ ~LastHeld =>
              /\ misses = l.misses + 1
              /\ hits = l.hits
              /\ l.ret = <<l.key, unit.calls>>
              /\ unit.store[l.key] = l.ret
              /\ \E n \in 1..Len(cache) : cache[n] = l.key
        /\ unit.calls = misses

\* a hit on a key whose details an earlier inspect call had produced, after
\* other inspect calls
C12_Witness ==
    /\ unit.kind = "cache"
    /\ LastHeld
    /\ hits = 1
    /\ unit.calls > unit.last.ret[2]

\* C13: the cache holds at most 32 keys, each once; the keys it holds are
\* the most recently looked up of all the keys looked up so far (so the key
\* dropped by a miss on a full cache is the least recently looked up, a hit
\* counting as a lookup); after 33 lookups of 33 container ids the first is
\* not held, and a lookup of a key that is not held is a miss that calls
\* inspect_container.
C13_LeastRecentEvicted ==
    unit.kind = "cache" =>
        LET held == {cache[n] : n \in 1..Len(cache)} IN
        /\ Len(cache) <= 32
        /\ Cardinality(held) = Len(cache)
        /\ Len(cache) = (IF unit.fresh < 32 THEN unit.fresh ELSE 32)
        /\ \A k \in 1..unit.fresh : \A c \in held :
              k \notin held => unit.when[k] < unit.when[c]
        /\ (unit.fresh = 33 /\ unit.clock = 33) => 1 \notin held
        /\ (unit.clock > 0 /\ ~LastHeld) =>
              misses = unit.last.misses + 1 /\ unit.calls = unit.last.calls + 1

\* 33 container ids were looked up, then the first again: a miss, the 34th
\* inspect call
C13_Witness ==
    /\ unit.kind = "cache"
    /\ unit.fresh = 33
    /\ unit.clock = 34
    /\ unit.last.key = 1
    /\ ~LastHeld
    /\ misses = 34
    /\ unit.calls = 34

Inside == {w \in DOMAIN workers : workers[w].pc \in {"mem", "cpu"}}

\* C16: no fetch thread is inside add_container while a collect() is in the
\* middle of yielding its families (the reset takes the lock, the yields do
\* not).
C16_NoAddDuringReadout ==
    \A s \in DOMAIN sc :
        (sc[s].pc = "export" /\ sc[s].k > 0) => Inside = {}

\* the sources of the samples of a family, and their order
Sources(f) == {samples[f][n].src : n \in 1..Len(samples[f])}

Before(f, a, b) ==
    \E m, n \in 1..Len(samples[f]) :
        m < n /\ samples[f][m].src = a /\ samples[f][n].src = b

\* C17: at most one fetch thread is inside add_container, and it holds the
\* lock; the samples of a thread are one block in every family, and two
\* threads come in the same order in all the families.
C17_OneWorkerInsideAdd ==
    /\ Cardinality(Inside) <= 1
    /\ \A w \in Inside : lock = w
    /\ lock # Free => lock \in Inside
    /\ \A a, b \in UNION {Sources(f) : f \in FamilySet} :
          a # b => ~(/\ \E f \in FamilySet : Before(f, a, b)
                     /\ \E g \in FamilySet : Before(g, b, a))

\* a fetch thread is inside add_container while another one, with its stats
\* fetched, waits for the lock
C17_Witness ==
    \E w1, w2 \in DOMAIN workers :
        /\ w1 \in Inside
        /\ workers[w2].pc = "ready"
        /\ Sources("container_network_receive_bytes_total") = {w1}

\* C18: the join loop takes at most 5 time units in all.
C18_JoinPhaseWithinOneTimeout ==
    \A s \in DOMAIN sc : sc[s].waited <= 5

\* C19: once all the fetch threads of a cycle have ended, each of them has
\* left in the families either all the samples of its container or none.
C19_AllOrNothing ==
    \A s \in DOMAIN sc :
        (sc[s].threads # <<>> /\ \A w \in Range(sc[s].threads) : Finished(w)) =>
            \A w \in Range(sc[s].threads) :
                \/ \A f \in FamilySet : From(samples[f], w) = <<>>
                \/ /\ workers[w].doc # "none"
                   /\ \A f \in FamilySet :
                         Len(From(samples[f], w))
                             = ExpectedCount(StatsDoc(workers[w].doc), f)

\* C20: every collect() whose listing has returned reaches its yields, and
\* every collect() that yields is served to its end, whatever the fetch
\* threads do (every inspect call of the model returns).
C20_ListedCycleReachesExport ==
    /\ (sc[1].pc = "resolve") ~> (sc[1].pc = "export")
    /\ (sc[1].pc = "export") ~> (sc[1].pc = "idle")

\* what the fetch threads cannot do: a collect() that has entered its join
\* loop reaches its yields, and every collect() that has started ends, after
\* its last family or by the exception of the listing or of an environment
\* that cannot be parsed
JoinLoopEnds ==
    /\ (sc[1].pc = "join") ~> (sc[1].pc = "export")
    /\ (sc[1].pc \in {"list", "resolve", "join", "export", "lru"})
          ~> (sc[1].pc \in {"idle", "failed"})

\* a scrape has been served to its end while the two fetch threads it
\* started are still in their stats calls, after more than the timeout
ServedWithoutItsThreads ==
    /\ sc[1].pc = "idle"
    /\ ncycles = 2
    /\ Len(lrusamples["exporter_details_cache_hits_total"]) = 2
    /\ Len(sc[1].threads) = 0
    /\ Cardinality({w \in DOMAIN workers :
                       w[1] = 2 /\ workers[w].pc = "fetch"
                                /\ workers[w].dur > JoinTimeout}) = 2

====
